---- MODULE Spec2Model ----
(***************************************************************************)
(* MedVault: the ingest / load state machine of MedVaultRAG                *)
(* (src/src/rag_engine.py), with the persisted Chroma vector store, the    *)
(* in-memory BM25 index and the source directory it reads.                 *)
(*                                                                         *)
(* Texts are sequences of one-character strings.  A chunk is a record      *)
(* [source, text]: the metadata "source" of the Document it was cut from   *)
(* and its page_content.  The persisted collection is modelled as the SET  *)
(* of chunks it holds (Chroma gives every added chunk a fresh id, so the   *)
(* real collection is a bag; the specification speaks of chunk sets).              *)
(***************************************************************************)
EXTENDS Integers, Sequences, FiniteSets, TLC

(***************************************************************************)
(* Bounds of the model.  chunk_size and chunk_overlap are the configured   *)
(* values (config.py: 1024 and 100), scaled down so that the short texts   *)
(* of the model are split into several chunks.                             *)
(***************************************************************************)
NumFiles == 1
chunk_size == 2
chunk_overlap == 0

\* the files of the directory of LoaderSpec, where nothing is chunked
NumDirFiles == 2

\* the longest list of questions given to batch_query
MaxBatch == 2

\* the number of results each retriever gives the ensemble (config.py:
\* retriever_k_bm25 and retriever_k_vector, both 5), scaled down
retriever_k == 2

Files == 1..NumFiles

\* File contents the source directory can hold: plain words, a text with
\* sentence terminators and no spaces, a whitespace-only file.
Texts ==
  { <<"a", "b", " ", "c">>,
    <<"a", ".", "b", "c", ".", "d", "e">>,
    <<" ">> }

None == "None"

\* ------------------------------------------------------------------------
\* RecursiveCharacterTextSplitter, as configured at the two call sites.
\* ------------------------------------------------------------------------

\* separators passed by ingest (rag_engine.py:263)
IngestSeparators == << <<"\n", "\n">>, <<"\n">>, <<".">>, <<" ">>, << >> >>

\* load_existing passes no separators: the splitter's default cascade
LoadSeparators == << <<"\n", "\n">>, <<"\n">>, <<" ">>, << >> >>

OccursAt(t, sep, i) ==
  /\ i + Len(sep) - 1 <= Len(t)
  /\ \A j \in 1..Len(sep) : t[i + j - 1] = sep[j]

\* re.search(re.escape(sep), text)
Contains(t, sep) == \E i \in 1..Len(t) : OccursAt(t, sep, i)

\* Start positions of the leftmost non-overlapping occurrences of sep from i on.
RECURSIVE CutPoints(_, _, _)
CutPoints(t, sep, i) ==
  IF i > Len(t) THEN << >>
  ELSE IF OccursAt(t, sep, i) THEN <<i>> \o CutPoints(t, sep, i + Len(sep))
  ELSE CutPoints(t, sep, i + 1)

\* The pieces of t between consecutive cut points; cuts ends with Len(t)+1.
RECURSIVE Pieces(_, _, _)
Pieces(t, from, cuts) ==
  IF cuts = << >> THEN << >>
  ELSE LET piece == SubSeq(t, from, Head(cuts) - 1)
           rest  == Pieces(t, Head(cuts), Tail(cuts))
       IN  IF piece = << >> THEN rest ELSE <<piece>> \o rest

\* _split_text_with_regex with keep_separator=True: every separator stays at
\* the start of the piece that follows it, empty pieces are dropped;
\* the separator "" splits into single characters.
SplitKeep(t, sep) ==
  IF sep = << >> THEN [i \in 1..Len(t) |-> <<t[i]>>]
  ELSE Pieces(t, 1, CutPoints(t, sep, 1) \o <<Len(t) + 1>>)

RECURSIVE Concat(_)
Concat(ps) == IF ps = << >> THEN << >> ELSE Head(ps) \o Concat(Tail(ps))

IsSpace(c) == c \in {" ", "\n"}

RECURSIVE LStrip(_)
LStrip(t) == IF t # << >> /\ IsSpace(Head(t)) THEN LStrip(Tail(t)) ELSE t

RECURSIVE RStrip(_)
RStrip(t) ==
  IF t # << >> /\ IsSpace(t[Len(t)]) THEN RStrip(SubSeq(t, 1, Len(t) - 1)) ELSE t

\* _join_docs: join with the (empty) separator and strip; "" is dropped
JoinDocs(cur) ==
  LET s == RStrip(LStrip(Concat(cur))) IN IF s = << >> THEN << >> ELSE <<s>>

RECURSIVE TotalLen(_)
TotalLen(ps) == IF ps = << >> THEN 0 ELSE Len(Head(ps)) + TotalLen(Tail(ps))

\* the while loop of _merge_splits: drop pieces from the front of the current
\* chunk until what is left fits the overlap and leaves room for the next piece
RECURSIVE PopFront(_, _, _, _)
PopFront(cur, len, size, overlap) ==
  LET total == TotalLen(cur)
  IN  IF total > overlap \/ (total + len > size /\ total > 0)
      THEN PopFront(Tail(cur), len, size, overlap)
      ELSE cur

\* _merge_splits(splits, separator="") from the state (current_doc = cur)
RECURSIVE MergeSplits(_, _, _, _)
MergeSplits(splits, cur, size, overlap) ==
  IF splits = << >> THEN JoinDocs(cur)
  ELSE LET d == Head(splits)
       IN  IF TotalLen(cur) + Len(d) > size /\ cur # << >>
           THEN JoinDocs(cur)
                  \o MergeSplits(Tail(splits),
                                 Append(PopFront(cur, Len(d), size, overlap), d),
                                 size, overlap)
           ELSE MergeSplits(Tail(splits), Append(cur, d), size, overlap)

\* The first separator of the cascade that occurs in the text ("" always does)
RECURSIVE PickSeparator(_, _, _)
PickSeparator(t, seps, i) ==
  IF i >= Len(seps) THEN Len(seps)
  ELSE IF seps[i] = << >> \/ Contains(t, seps[i]) THEN i
  ELSE PickSeparator(t, seps, i + 1)

\* RecursiveCharacterTextSplitter._split_text
RECURSIVE SplitText(_, _, _, _)
RECURSIVE SplitLoop(_, _, _, _, _)
SplitText(t, seps, size, overlap) ==
  LET k    == PickSeparator(t, seps, 1)
      sep  == seps[k]
      more == IF sep = << >> THEN << >> ELSE SubSeq(seps, k + 1, Len(seps))
  IN  SplitLoop(SplitKeep(t, sep), << >>, more, size, overlap)

SplitLoop(splits, good, more, size, overlap) ==
  IF splits = << >>
  THEN IF good = << >> THEN << >> ELSE MergeSplits(good, << >>, size, overlap)
  ELSE LET s == Head(splits)
       IN  IF Len(s) < size
           THEN SplitLoop(Tail(splits), Append(good, s), more, size, overlap)
           ELSE (IF good = << >> THEN << >>
                 ELSE MergeSplits(good, << >>, size, overlap))
                  \o (IF more = << >> THEN <<s>>
                      ELSE SplitText(s, more, size, overlap))
                  \o SplitLoop(Tail(splits), << >>, more, size, overlap)

\* text_splitter.split_text for the two splitters the code constructs, both
\* with cfg.chunk_size and cfg.chunk_overlap (tabulated over the texts)
IngestSplit ==
  [t \in Texts |-> SplitText(t, IngestSeparators, chunk_size, chunk_overlap)]

LoadSplit ==
  [t \in Texts |-> SplitText(t, LoadSeparators, chunk_size, chunk_overlap)]

\* split_documents: every document is cut on its own and each chunk keeps the
\* document's metadata (its source)
split_documents(documents, split) ==
  UNION { { [source |-> d.source, text |-> split[d.text][i]]
            : i \in 1..Len(split[d.text]) }
        : d \in documents }

\* ------------------------------------------------------------------------
\* Encryption (src/src/encryption.py).  A str and a bytes value are sequences
\* of one-element strings.  Fernet is modelled by its construction: a token
\* is the signed part (version, IV, the ciphertext under the key) followed
\* by the HMAC of that part under the key; who holds no key cannot make the
\* HMAC of a part he changed.
\* ------------------------------------------------------------------------

\* a character that UTF-8 encodes in two bytes
EAcute == "e-acute"

\* what encrypt_text is given: a text of a file, the empty one, a non-ASCII one
Plaintexts == { <<"a", "b", " ", "c">>, << >>, <<"a", EAcute>> }

\* str.encode(): an ASCII character is its own byte
RECURSIVE encode(_)
encode(p) ==
  IF p = << >> THEN << >>
  ELSE (IF Head(p) = EAcute THEN <<"c3", "a9">> ELSE <<Head(p)>>) \o encode(Tail(p))

\* bytes.decode(): ok = FALSE is UnicodeDecodeError
RECURSIVE decode_latin1(_)
decode_latin1(b) ==
  IF b = << >> THEN [ok |-> TRUE, text |-> << >>]
  ELSE [ok |-> TRUE, text |-> <<Head(b)>> \o decode_latin1(Tail(b)).text]

RECURSIVE decode(_)
decode(b) ==
  IF b = << >> THEN [ok |-> TRUE, text |-> << >>]
  ELSE IF Head(b) = "c3"
  THEN IF Len(b) >= 2 /\ b[2] = "a9"
       THEN LET r == decode(SubSeq(b, 3, Len(b)))
            IN  [ok |-> r.ok, text |-> IF r.ok THEN <<EAcute>> \o r.text ELSE << >>]
       ELSE [ok |-> FALSE, text |-> << >>]
  ELSE IF Head(b) \in {"a9", "ff"}
  THEN [ok |-> FALSE, text |-> << >>]
  ELSE LET r == decode(Tail(b))
       IN  [ok |-> r.ok, text |-> IF r.ok THEN <<Head(b)>> \o r.text ELSE << >>]

\* the first characters of every Fernet token (version byte 0x80, base64)
Version == "gAAAAA"

\* os.urandom(16), drawn anew by every Fernet.encrypt
IVs == {"iv1", "iv2"}

\* the part of a token that is signed; key \o bytes stands for AES-CBC of
\* the bytes under the key
Signed(key, iv, bytes) == <<Version, iv>> \o key \o bytes

HMAC(key, data) == <<"hmac">> \o key \o data

\* Fernet(key).encrypt(bytes)
Fernet_encrypt(key, iv, bytes) ==
  LET data == Signed(key, iv, bytes) IN data \o HMAC(key, data)

\* Fernet(key).decrypt(token): ok = FALSE is InvalidToken.  The HMAC of the
\* signed part is computed anew under the key and compared with the token's.
Fernet_decrypt_unverified(key, tok) ==
  LET half == (Len(tok) - 1 - Len(key)) \div 2
  IN  IF half >= 2 + Len(key)
      THEN [ok |-> TRUE, bytes |-> SubSeq(tok, 3 + Len(key), half)]
      ELSE [ok |-> FALSE, bytes |-> << >>]

Fernet_decrypt(key, tok) ==
  LET half == (Len(tok) - 1 - Len(key)) \div 2
      data == SubSeq(tok, 1, half)
  IN  IF /\ key # << >>
         /\ half >= 2 + Len(key)
         /\ tok = data \o HMAC(key, data)
         /\ data[1] = Version
         /\ SubSeq(data, 3, 2 + Len(key)) = key
      THEN [ok |-> TRUE, bytes |-> SubSeq(data, 3 + Len(key), half)]
      ELSE [ok |-> FALSE, bytes |-> << >>]

\* 32 url-safe base64-encoded bytes: what Fernet(key) accepts
FernetKeys == {"K1", "K2"}

\* the values of an encryption_key argument or variable
KeyArgs == {None, "", "K1", "K2", "not-a-key"}

\* the values of a password argument or variable
PasswordArgs == {None, "", "pw1", "pw2"}

\* "if encryption_key:" - None and the empty string are false
Truthy(x) == x \notin {None, ""}

Salt == "medvault_salt_v1"

\* PBKDF2HMAC(SHA256, length=32, salt, iterations=100000).derive(password)
PBKDF2HMAC_saltless(password, salt) == <<"pbkdf2">>
PBKDF2HMAC(password, salt) == <<"pbkdf2", salt, password>>

\* EncryptionManager with encryption_enabled = False, cipher = None
Disabled == [encryption_enabled |-> FALSE, cipher |-> << >>]

Enabled(key) == [encryption_enabled |-> TRUE, cipher |-> key]

\* a call that returns a value / that raises
Return(v) == [ok |-> TRUE, value |-> v, error |-> [type |-> "", message |-> ""]]
Raise(type, message) ==
  [ok |-> FALSE, value |-> << >>, error |-> [type |-> type, message |-> message]]

NotEnabled == Raise("ValueError", "Encryption not enabled")
IntegrityError ==
  Raise("ValueError", "Decryption failed - data integrity check failed")
UnicodeDecodeError == Raise("UnicodeDecodeError", "invalid start byte")

_initialize_with_key(key) ==
  IF key \in FernetKeys THEN [raised |-> FALSE, em |-> Enabled(<<key>>)]
  ELSE [raised |-> TRUE, em |-> Disabled]     \* ValueError: Invalid Fernet key

_initialize_with_password(password) ==
  [raised |-> FALSE, em |-> Enabled(PBKDF2HMAC(password, Salt))]

\* EncryptionManager(encryption_key, password): the object, or raised
EncryptionManager_passwordFirst(encryption_key, password) ==
  IF Truthy(password) THEN _initialize_with_password(password)
  ELSE IF Truthy(encryption_key) THEN _initialize_with_key(encryption_key)
  ELSE [raised |-> FALSE, em |-> Disabled]

EncryptionManager(encryption_key, password) ==
  IF Truthy(encryption_key) THEN _initialize_with_key(encryption_key)
  ELSE IF Truthy(password) THEN _initialize_with_password(password)
  ELSE [raised |-> FALSE, em |-> Disabled]

\* get_encryption_manager(encryption_key, password) with os.environ = e
get_encryption_manager(encryption_key, password, e) ==
  IF Truthy(encryption_key) THEN EncryptionManager(encryption_key, None)
  ELSE IF Truthy(password) THEN EncryptionManager(None, password)
  ELSE IF Truthy(e.ENCRYPTION_KEY) THEN EncryptionManager(e.ENCRYPTION_KEY, None)
  ELSE IF Truthy(e.ENCRYPTION_PASSWORD)
  THEN EncryptionManager(None, e.ENCRYPTION_PASSWORD)
  ELSE EncryptionManager(None, None)

\* em.encrypt_text(plaintext), Fernet drawing iv; the token is returned as str
encrypt_text(em, plaintext, iv) ==
  IF ~em.encryption_enabled \/ em.cipher = << >> THEN NotEnabled
  ELSE Return(Fernet_encrypt(em.cipher, iv, encode(plaintext)))

\* em.decrypt_text(ciphertext)
decrypt_text(em, ciphertext) ==
  IF ~em.encryption_enabled \/ em.cipher = << >> THEN NotEnabled
  ELSE LET r == Fernet_decrypt(em.cipher, ciphertext)
           t == decode(r.bytes)
       IN  IF ~r.ok THEN IntegrityError
           ELSE IF t.ok THEN Return(t.text)
           ELSE UnicodeDecodeError

\* ------------------------------------------------------------------------
\* Configuration (src/src/config.py).  Weights are counted in thousandths.
\* ------------------------------------------------------------------------
One == 1000
Tolerance == 10
MinChunkSize == 100
MaxChunkSize == 5000
default_chunk_size == 1024
default_chunk_overlap == 100
default_ensemble_weight_bm25 == 350
default_ensemble_weight_vector == 650

Fields ==
  {"chunk_size", "chunk_overlap", "ensemble_weight_bm25", "ensemble_weight_vector"}

\* the field defaults: what RAGConfig() holds when nothing sets a field
Defaults ==
  [chunk_size |-> default_chunk_size, chunk_overlap |-> default_chunk_overlap,
   ensemble_weight_bm25 |-> default_ensemble_weight_bm25,
   ensemble_weight_vector |-> default_ensemble_weight_vector]

\* _config is None
NoConfig == [f \in {} |-> 0]

Abs(x) == IF x < 0 THEN -x ELSE x

\* the field validators of RAGConfig
validate_weights(v) == 0 <= v /\ v <= One
validate_chunk_size(v) == ~(v < MinChunkSize \/ v > MaxChunkSize)

\* validate_weights_sum: does not raise
validate_weights_sum(c) ==
  Abs(c.ensemble_weight_bm25 + c.ensemble_weight_vector - One) < Tolerance

\* get_config(): RAGConfig() of the settings (the validators run), then
\* ensure_directories and validate_weights_sum
get_config(given) ==
  IF /\ validate_weights(given.ensemble_weight_bm25)
     /\ validate_weights(given.ensemble_weight_vector)
     /\ validate_chunk_size(given.chunk_size)
     /\ validate_weights_sum(given)
  THEN [raised |-> FALSE, cfg |-> given]
  ELSE [raised |-> TRUE, cfg |-> NoConfig]

\* config(): the cached instance, made on first use
config(cached, given) ==
  IF cached = NoConfig THEN get_config(given) ELSE [raised |-> FALSE, cfg |-> cached]

\* "for key, value in config_override.items(): setattr(cfg, key, value)":
\* RAGConfig does not validate assignments
setattr_all(c, config_override) ==
  [f \in Fields |-> IF f \in DOMAIN config_override THEN config_override[f] ELSE c[f]]

\* MedVaultRAG(config_override): the configuration it leaves in _config and
\* holds as self.cfg, or raised
MedVaultRAG(cached, given, config_override) ==
  LET c == config(cached, given)
  IN  IF c.raised THEN [raised |-> TRUE, cfg |-> cached]
      ELSE [raised |-> FALSE, cfg |-> setattr_all(c.cfg, config_override)]

\* RecursiveCharacterTextSplitter(chunk_size, chunk_overlap) raises ValueError
\* on an overlap larger than the size
splitter_raises(c) == c.chunk_overlap > c.chunk_size

\* ------------------------------------------------------------------------
\* State
\* ------------------------------------------------------------------------
VARIABLES
  vector_db,           \* self.vector_db: None or the handle "db" on the store
  ensemble_retriever,  \* self.ensemble_retriever: NoRetriever or [mode, kw]
  vsExists,            \* os.path.exists(cfg.vector_store_path)
  persisted,           \* the chunks held by the collection in that directory
  srcExists,           \* os.path.exists of the source directory of the calls
  files,               \* the *.txt files of that directory: file -> text
  last,                \* the last operation: [op, force, failed, hadStore, ret]:
                       \* failed tells what failed in it (FaultClass), hadStore
                       \* is vsExists as the call found it
  inflight,            \* the ingest / load_existing call a thread is inside of,
                       \* between its assignment of self.vector_db and its
                       \* call of _initialize_retrievers (NoCall if none)
  observed,            \* what the last query / health_check read of the pipeline
  env,                 \* os.environ: the variables the program reads
  encryption_manager,  \* self.encryption_manager (an EncryptionManager)
  loaded,              \* what _load_documents_with_decryption last returned
  token,               \* a ciphertext at hand: [text, plain, cipher, intact]
  result,              \* the last step made with an EncryptionManager or with
                       \* the configuration: its name and, of a call, the
                       \* arguments and the outcome
  settings,            \* the values the environment and .env give RAGConfig
  _config              \* config.py's cached RAGConfig (NoConfig: None); every
                       \* pipeline's self.cfg is this very object

vars == <<vector_db, ensemble_retriever, vsExists, persisted, srcExists, files,
          last, inflight, observed, env, encryption_manager, loaded, token,
          result, settings, _config>>

\* the variables of the threads of ConcSpec
threadVars == <<inflight, observed>>

\* what ingest, load_existing and the source directory's writers leave alone
restVars == <<env, encryption_manager, loaded, token, result, settings, _config>>

\* What the library and the embedding model can do to one call.
\*   open          Chroma cannot open the persist directory
\*   embed         embedding or adding the chunks fails (the directory is there)
\*   bm25          BM25Retriever.from_documents raises
\*   as_retriever  vector_db.as_retriever raises
\*   ensemble      EnsembleRetriever(...) raises
Faults == {"open", "embed", "bm25", "as_retriever", "ensemble"}

\* The combinations of faults the actions draw from: every other combination
\* makes a call behave as one of these does (FaultSetsCover below).
FaultSets ==
  { {}, {"open"}, {"embed"}, {"bm25"}, {"as_retriever"}, {"ensemble"},
    {"embed", "bm25"}, {"bm25", "as_retriever"} }

\* The pipeline and its disk as one value, for the operations below.
Here ==
  [ vector_db |-> vector_db, ensemble_retriever |-> ensemble_retriever,
    vsExists |-> vsExists, persisted |-> persisted,
    srcExists |-> srcExists, files |-> files,
    encryption_manager |-> encryption_manager, cfg |-> _config ]

\* the content of a file that open() or f.read() raises on (no permission,
\* bytes that are not UTF-8)
Unreadable == <<"ff">>

\* lines 179-186: the content of a file after the attempt to decrypt it
decrypted_or_empty(em, content) ==
  IF em.encryption_enabled THEN decrypt_text(em, content).value ELSE content

decrypted_or_raw(em, content) ==
  IF em.encryption_enabled /\ decrypt_text(em, content).ok
  THEN decrypt_text(em, content).value
  ELSE content

\* _load_documents_with_decryption: one Document per *.txt file of the
\* directory that can be read
_load_documents_with_decryption(s) ==
  { [source |-> f, text |-> decrypted_or_raw(s.encryption_manager, s.files[f])]
    : f \in {g \in DOMAIN s.files : s.files[g] # Unreadable} }

\* _initialize_encryption: the manager get_encryption_manager() makes of the
\* environment; when it raises, self.encryption_manager is None, which the
\* loader takes as it takes a disabled manager
_initialize_encryption(e) ==
  LET r == get_encryption_manager(None, None, e)
  IN  IF r.raised THEN Disabled ELSE r.em

\* "not self.vector_db": the attribute is None, or it is a Chroma whose
\* collection is empty (langchain_community's Chroma defines __len__ as the
\* count of the collection, and Python takes an object of length 0 as false)
Falsy(s) ==
  \/ s.vector_db = None
  \/ s.persisted = {}

\* Chroma.from_documents(chunks, ..., persist_directory=cfg.vector_store_path):
\* opens (creating it if need be) the collection of the directory and ADDS the
\* chunks to it.  ok = FALSE when it raises.
from_documents(s, chunks, faults) ==
  IF "open" \in faults THEN [ok |-> FALSE, st |-> s]
  ELSE IF "embed" \in faults
  THEN [ok |-> FALSE, st |-> [s EXCEPT !.vsExists = TRUE]]
  ELSE [ok |-> TRUE,
        st |-> [s EXCEPT !.vsExists = TRUE,
                         !.persisted = s.persisted \cup chunks]]

\* self.ensemble_retriever is None
NoRetriever         == [mode |-> "none", kw |-> {}]
HybridRetriever(kw) == [mode |-> "hybrid", kw |-> kw]
VectorRetriever     == [mode |-> "vector", kw |-> {}]
BM25Only(kw)        == [mode |-> "bm25", kw |-> kw]

\* the two BM25-only fallbacks (rag_engine.py:392-394, 403-405)
FallBackToBM25(s, bm25) ==
  IF bm25.built THEN [s EXCEPT !.ensemble_retriever = BM25Only(bm25.kw)] ELSE s

\* the choice of lines 408-430, the vector retriever being at hand
InstallRetriever_clearing(s, bm25, faults) ==
  IF bm25.built
  THEN IF "ensemble" \in faults
       THEN [s EXCEPT !.ensemble_retriever = NoRetriever]
       ELSE [s EXCEPT !.ensemble_retriever = HybridRetriever(bm25.kw)]
  ELSE [s EXCEPT !.ensemble_retriever = VectorRetriever]

InstallRetriever(s, bm25, faults) ==
  IF bm25.built
  THEN IF "ensemble" \in faults THEN s   \* caught by the outer except
       ELSE [s EXCEPT !.ensemble_retriever = HybridRetriever(bm25.kw)]
  ELSE [s EXCEPT !.ensemble_retriever = VectorRetriever]

_initialize_retrievers(s, chunks, faults) ==
  IF chunks = {} THEN s
  ELSE
    LET bm25 == IF "bm25" \in faults THEN [built |-> FALSE, kw |-> {}]
                ELSE [built |-> TRUE, kw |-> chunks]
        made == from_documents(s, chunks, faults)
        s1   == IF Falsy(s) THEN [made.st EXCEPT !.vector_db = "db"] ELSE s
    IN  IF Falsy(s) /\ ~made.ok THEN FallBackToBM25(made.st, bm25)
        ELSE IF "as_retriever" \in faults THEN FallBackToBM25(s1, bm25)
        ELSE InstallRetriever(s1, bm25, faults)

\* the guard of line 315
StoreMissing_wrongPath(s) == ~s.srcExists
StoreMissing(s) == ~s.vsExists

\* Chroma(persist_directory=...): opens the directory, creating it if missing
OpenStore_noHandle(s) == [s EXCEPT !.vsExists = TRUE]
OpenStore(s) == [s EXCEPT !.vector_db = "db", !.vsExists = TRUE]

load_existing(s, faults) ==
  IF StoreMissing(s) THEN [ret |-> FALSE, st |-> s]
  ELSE IF "open" \in faults THEN [ret |-> FALSE, st |-> s]
  ELSE
    LET s1 == OpenStore(s)
    IN  IF s1.srcExists
        THEN LET documents == _load_documents_with_decryption(s1)
                 chunks    == split_documents(documents, LoadSplit)
             IN  IF splitter_raises(s1.cfg)   \* line 335, caught at line 348
                 THEN [ret |-> FALSE, st |-> s1]
                 ELSE [ret |-> TRUE,
                       st |-> _initialize_retrievers(s1, chunks, faults)]
        ELSE [ret |-> TRUE, st |-> s1]

\* the guard of line 246
UseExisting_inverted(s, force_reindex) == s.vsExists /\ force_reindex
UseExisting_nonempty(s, force_reindex) == s.persisted # {} /\ ~force_reindex
UseExisting(s, force_reindex) == s.vsExists /\ ~force_reindex

\* "if not documents" (line 253)
NoDocuments_never(documents) == FALSE
NoDocuments(documents) == documents = {}

ingest(s, force_reindex, faults) ==
  IF ~s.srcExists
  THEN [ret |-> FALSE, st |-> [s EXCEPT !.srcExists = TRUE]]   \* os.makedirs
  ELSE IF UseExisting(s, force_reindex) THEN load_existing(s, faults)
  ELSE
    LET documents == _load_documents_with_decryption(s)
        chunks    == split_documents(documents, IngestSplit)
        made      == from_documents(s, chunks, faults)
    IN  IF NoDocuments(documents) THEN [ret |-> FALSE, st |-> s]
        ELSE IF splitter_raises(s.cfg) THEN [ret |-> FALSE, st |-> s]   \* line 260
        ELSE IF ~made.ok THEN [ret |-> FALSE, st |-> made.st]
        ELSE [ret |-> TRUE,
              st |-> _initialize_retrievers([made.st EXCEPT !.vector_db = "db"],
                                            chunks, faults)]

\* ------------------------------------------------------------------------
\* Actions
\* ------------------------------------------------------------------------
Become(s) ==
  /\ vector_db' = s.vector_db
  /\ ensemble_retriever' = s.ensemble_retriever
  /\ vsExists' = s.vsExists
  /\ persisted' = s.persisted
  /\ srcExists' = s.srcExists
  /\ files' = s.files

NoFiles == << >>

\* what the record of a call keeps of its faults: none, the BM25 build alone,
\* or anything else
FaultClass(faults) ==
  IF faults = {} THEN "nothing"
  ELSE IF faults = {"bm25"} THEN "bm25"
  ELSE "other"

\* a step that is no call of ingest or load_existing
Other(op) ==
  [op |-> op, force |-> FALSE, failed |-> "nothing", hadStore |-> FALSE,
   ret |-> TRUE]

\* MedVaultRAG() in a fresh process on a fresh disk.  config() has run
\* ensure_directories on the default vector_store_path, unless the store path
\* was overridden to a directory that does not exist yet.
NoCall ==
  [op |-> "none", delegated |-> FALSE, force |-> FALSE, hadStore |-> FALSE,
   chunks |-> {}, faults |-> {}]

NotObserved == [by |-> "none", midway |-> FALSE]

\* no encryption variable is set
NoEnv == [ENCRYPTION_KEY |-> None, ENCRYPTION_PASSWORD |-> None]

NoToken ==
  [text |-> << >>, plain |-> << >>, cipher |-> << >>, intact |-> FALSE,
   origin |-> "none"]

NoResult == [op |-> "none"]

Init ==
  /\ vector_db = None
  /\ ensemble_retriever = NoRetriever
  /\ vsExists \in BOOLEAN
  /\ persisted = {}
  /\ srcExists \in BOOLEAN
  /\ files = NoFiles
  /\ last = Other("init")
  /\ inflight = NoCall
  /\ observed = NotObserved
  /\ env = NoEnv
  /\ encryption_manager = _initialize_encryption(env)
  /\ loaded = {}
  /\ token = NoToken
  /\ result = NoResult
  /\ settings = Defaults
  /\ _config = Defaults

Ingest ==
  \E force_reindex \in BOOLEAN, faults \in FaultSets :
    LET r == ingest(Here, force_reindex, faults)
    IN  /\ Become(r.st)
        /\ last' = [op |-> "ingest", force |-> force_reindex,
                    failed |-> FaultClass(faults),
                    hadStore |-> vsExists, ret |-> r.ret]
        /\ UNCHANGED <<threadVars, restVars>>

LoadExisting ==
  \E faults \in FaultSets :
    LET r == load_existing(Here, faults)
    IN  /\ Become(r.st)
        /\ last' = [op |-> "load_existing", force |-> FALSE,
                    failed |-> FaultClass(faults),
                    hadStore |-> vsExists, ret |-> r.ret]
        /\ UNCHANGED <<threadVars, restVars>>

\* The process ends and a new MedVaultRAG is constructed over the same disk.
Restart ==
  /\ vector_db' = None
  /\ ensemble_retriever' = NoRetriever
  /\ last' = Other("restart")
  /\ inflight' = NoCall
  /\ observed' = NotObserved
  /\ encryption_manager' = _initialize_encryption(env)
  /\ UNCHANGED <<vsExists, persisted, srcExists, files, env, loaded, token, result,
                 settings, _config>>

\* The source directory changes between calls: a record is written
\* (generate_dataset, encrypt_directory), removed, or the directory is gone.
WriteFile ==
  \E f \in Files, t \in Texts :
    /\ f \in DOMAIN files => files[f] # t
    /\ files' = [g \in DOMAIN files \cup {f} |-> IF g = f THEN t ELSE files[g]]
    /\ srcExists' = TRUE
    /\ last' = Other("env")
    /\ UNCHANGED <<vector_db, ensemble_retriever, vsExists, persisted>>
    /\ UNCHANGED <<threadVars, restVars>>

DeleteFile ==
  \E f \in DOMAIN files :
    /\ files' = [g \in DOMAIN files \ {f} |-> files[g]]
    /\ last' = Other("env")
    /\ UNCHANGED <<vector_db, ensemble_retriever, vsExists, persisted, srcExists>>
    /\ UNCHANGED <<threadVars, restVars>>

RemoveSourceDir ==
  /\ srcExists
  /\ srcExists' = FALSE
  /\ files' = NoFiles
  /\ last' = Other("env")
  /\ UNCHANGED <<vector_db, ensemble_retriever, vsExists, persisted>>
  /\ UNCHANGED <<threadVars, restVars>>

Next ==
  \/ Ingest
  \/ LoadExisting
  \/ Restart
  \/ WriteFile
  \/ DeleteFile
  \/ RemoveSourceDir

Spec == Init /\ [][Next]_vars

\* Drawing the faults of a call from FaultSets loses no behaviour: in every
\* reachable state every combination of faults has the effect of one of them.
FaultSetsCover ==
  \A fs \in SUBSET Faults :
    /\ \E g \in FaultSets : load_existing(Here, fs) = load_existing(Here, g)
    /\ \A b \in BOOLEAN :
         \E g \in FaultSets : ingest(Here, b, fs) = ingest(Here, b, g)

\* ------------------------------------------------------------------------
\* Threads.  The application shares one MedVaultRAG between its sessions
\* (app.py: st.cache_resource), each of which runs in a thread of its own:
\* one may be inside ingest or load_existing while another calls query or
\* health_check.  No method of MedVaultRAG takes a lock.  ConcSpec runs the
\* indexing calls in the two steps their code makes of them: up to the
\* assignment of self.vector_db (ingest: line 271, load_existing: line 323),
\* and from there to the return.
\* ------------------------------------------------------------------------

\* load_existing up to line 323.  done: the call has returned.
load_existing_assign_vector_db(s, faults) ==
  IF StoreMissing(s) THEN [done |-> TRUE, ret |-> FALSE, st |-> s, chunks |-> {}]
  ELSE IF "open" \in faults
  THEN [done |-> TRUE, ret |-> FALSE, st |-> s, chunks |-> {}]
  ELSE [done |-> FALSE, ret |-> TRUE, st |-> OpenStore(s), chunks |-> {}]

\* ingest up to line 271 (through load_existing when it delegates)
ingest_assign_vector_db(s, force_reindex, faults) ==
  IF ~s.srcExists
  THEN [done |-> TRUE, ret |-> FALSE, st |-> [s EXCEPT !.srcExists = TRUE],
        chunks |-> {}]
  ELSE IF UseExisting(s, force_reindex)
  THEN load_existing_assign_vector_db(s, faults)
  ELSE
    LET documents == _load_documents_with_decryption(s)
        chunks    == split_documents(documents, IngestSplit)
        made      == from_documents(s, chunks, faults)
    IN  IF NoDocuments(documents) \/ splitter_raises(s.cfg)
        THEN [done |-> TRUE, ret |-> FALSE, st |-> s, chunks |-> {}]
        ELSE IF ~made.ok
        THEN [done |-> TRUE, ret |-> FALSE, st |-> made.st, chunks |-> {}]
        ELSE [done |-> FALSE, ret |-> TRUE,
              st |-> [made.st EXCEPT !.vector_db = "db"], chunks |-> chunks]

\* the rest of load_existing (lines 331-346)
load_existing_finish(s, faults) ==
  IF s.srcExists /\ ~splitter_raises(s.cfg)
  THEN _initialize_retrievers(
         s, split_documents(_load_documents_with_decryption(s), LoadSplit), faults)
  ELSE s

\* what the call in flight returns: True, unless load_existing's text
\* splitter raises
finish_ret(s, call) ==
  ~((call.op = "load_existing" \/ call.delegated)
      /\ s.srcExists /\ splitter_raises(s.cfg))

\* the rest of the call in flight: ingest lines 283-286, or load_existing's
finish(s, call) ==
  IF call.op = "load_existing" \/ call.delegated
  THEN load_existing_finish(s, call.faults)
  ELSE _initialize_retrievers(s, call.chunks, call.faults)

\* a thread enters ingest and runs it up to the assignment of self.vector_db,
\* or to its return if that comes first
StartIngest ==
  \E force_reindex \in BOOLEAN, faults \in FaultSets :
    LET r == ingest_assign_vector_db(Here, force_reindex, faults)
    IN  /\ inflight = NoCall
        /\ Become(r.st)
        /\ IF r.done
           THEN /\ last' = [op |-> "ingest", force |-> force_reindex,
                            failed |-> FaultClass(faults),
                            hadStore |-> vsExists, ret |-> r.ret]
                /\ inflight' = NoCall
           ELSE /\ last' = last
                /\ inflight' = [op |-> "ingest",
                                delegated |-> UseExisting(Here, force_reindex),
                                force |-> force_reindex, hadStore |-> vsExists,
                                chunks |-> r.chunks, faults |-> faults]
        /\ UNCHANGED <<observed, restVars>>

StartLoadExisting ==
  \E faults \in FaultSets :
    LET r == load_existing_assign_vector_db(Here, faults)
    IN  /\ inflight = NoCall
        /\ Become(r.st)
        /\ IF r.done
           THEN /\ last' = [op |-> "load_existing", force |-> FALSE,
                            failed |-> FaultClass(faults),
                            hadStore |-> vsExists, ret |-> r.ret]
                /\ inflight' = NoCall
           ELSE /\ last' = last
                /\ inflight' = [op |-> "load_existing", delegated |-> FALSE,
                                force |-> FALSE, hadStore |-> vsExists,
                                chunks |-> {}, faults |-> faults]
        /\ UNCHANGED <<observed, restVars>>

\* the thread inside the call runs it to its return
FinishIndexing ==
  /\ inflight # NoCall
  /\ Become(finish(Here, inflight))
  /\ last' = [op |-> inflight.op, force |-> inflight.force,
              failed |-> FaultClass(inflight.faults),
              hadStore |-> inflight.hadStore, ret |-> finish_ret(Here, inflight)]
  /\ inflight' = NoCall
  /\ UNCHANGED <<observed, restVars>>

\* a reader of self.vector_db and self.ensemble_retriever; midway: it reads
\* them while a call is between its two assignments
Read(by) == [by |-> by, midway |-> inflight # NoCall]

\* another thread calls query: nothing makes it wait for the call in flight
Query ==
  /\ observed' = Read("query")
  /\ UNCHANGED <<vector_db, ensemble_retriever, vsExists, persisted, srcExists,
                 files, last, inflight, restVars>>

HealthCheck ==
  /\ observed' = Read("health_check")
  /\ UNCHANGED <<vector_db, ensemble_retriever, vsExists, persisted, srcExists,
                 files, last, inflight, restVars>>

ConcNext ==
  \/ StartIngest
  \/ StartLoadExisting
  \/ FinishIndexing
  \/ Query
  \/ HealthCheck
  \/ Restart
  \/ WriteFile
  \/ DeleteFile
  \/ RemoveSourceDir

ConcSpec == Init /\ [][ConcNext]_vars

\* The two steps of a call, run with nothing in between, are the call.
StepsCompose ==
  \A faults \in FaultSets :
    /\ LET r == load_existing_assign_vector_db(Here, faults)
       IN  load_existing(Here, faults)
             = [ret |-> IF r.done THEN r.ret
                        ELSE finish_ret(r.st, [op |-> "load_existing",
                                               delegated |-> FALSE]),
                st  |-> IF r.done THEN r.st ELSE load_existing_finish(r.st, faults)]
    /\ \A b \in BOOLEAN :
         LET r == ingest_assign_vector_db(Here, b, faults)
             call == [op |-> "ingest", delegated |-> UseExisting(Here, b),
                      chunks |-> r.chunks, faults |-> faults]
         IN  ingest(Here, b, faults)
               = [ret |-> IF r.done THEN r.ret ELSE finish_ret(r.st, call),
                  st  |-> IF r.done THEN r.st ELSE finish(r.st, call)]

\* ------------------------------------------------------------------------
\* EncryptionManager on its own: managers are constructed from arguments and
\* from the environment, texts are encrypted, tokens are altered on their way
\* and decrypted.
\* ------------------------------------------------------------------------

\* the pipeline and its disk, untouched
Idle ==
  /\ vector_db = None
  /\ ensemble_retriever = NoRetriever
  /\ vsExists = TRUE
  /\ persisted = {}
  /\ srcExists = TRUE
  /\ files = NoFiles
  /\ last = Other("init")
  /\ inflight = NoCall
  /\ observed = NotObserved

pipelineVars ==
  <<vector_db, ensemble_retriever, vsExists, persisted, srcExists, files, last,
    inflight, observed>>

configVars == <<settings, _config>>

CryptoInit ==
  /\ Idle
  /\ env = NoEnv
  /\ encryption_manager = Disabled
  /\ loaded = {}
  /\ token = NoToken
  /\ result = NoResult
  /\ settings = Defaults
  /\ _config = NoConfig

\* the environment is set before the program starts
SetEnv ==
  \E k \in {None, "K1"}, p \in {None, "pw1"} :
    /\ env' = [ENCRYPTION_KEY |-> k, ENCRYPTION_PASSWORD |-> p]
    /\ result' = [op |-> "environ"]
    /\ UNCHANGED <<pipelineVars, configVars, encryption_manager, loaded, token>>

\* EncryptionManager(encryption_key=..., password=...); when the constructor
\* raises there is no new manager
Construct ==
  \E encryption_key \in KeyArgs, password \in PasswordArgs :
    LET r == EncryptionManager(encryption_key, password)
    IN  /\ encryption_manager' = IF r.raised THEN encryption_manager ELSE r.em
        /\ result' = [op |-> "EncryptionManager", encryption_key |-> encryption_key,
                      password |-> password, raised |-> r.raised]
        /\ UNCHANGED <<pipelineVars, configVars, env, loaded, token>>

GetEncryptionManager ==
  \E encryption_key \in KeyArgs, password \in PasswordArgs :
    LET r == get_encryption_manager(encryption_key, password, env)
    IN  /\ encryption_manager' = IF r.raised THEN encryption_manager ELSE r.em
        /\ result' = [op |-> "get_encryption_manager",
                      encryption_key |-> encryption_key,
                      password |-> password, environ |-> env,
                      raised |-> r.raised]
        /\ UNCHANGED <<pipelineVars, configVars, env, loaded, token>>

EncryptText ==
  \E plaintext \in Plaintexts, iv \in IVs :
    LET r == encrypt_text(encryption_manager, plaintext, iv)
    IN  /\ token' = IF r.ok
                    THEN [text |-> r.value, plain |-> plaintext,
                          cipher |-> encryption_manager.cipher, intact |-> TRUE,
                          origin |-> "encrypt_text"]
                    ELSE token
        /\ result' = [op |-> "encrypt_text", out |-> r]
        /\ UNCHANGED <<pipelineVars, configVars, env, encryption_manager, loaded>>

\* a token another program made under a shared key of bytes that are no UTF-8
ForeignToken ==
  \E key \in FernetKeys, iv \in IVs :
    /\ token' = [text |-> Fernet_encrypt(<<key>>, iv, <<"ff">>), plain |-> <<"ff">>,
                 cipher |-> <<key>>, intact |-> TRUE, origin |-> "foreign"]
    /\ result' = [op |-> "foreign"]
    /\ UNCHANGED <<pipelineVars, configVars, env, encryption_manager, loaded>>

\* the elements of a token made under key that TamperToken alters: the IV, the
\* first and the last element of the ciphertext, the last one of the HMAC
TamperPositions(tok, key) == {2, 3, (Len(tok) - 1 - Len(key)) \div 2, Len(tok)}

\* one element of the token is replaced by another value
Tamper(tok, i) == [tok EXCEPT ![i] = "X"]

TamperToken ==
  \E i \in TamperPositions(token.text, token.cipher) :
    /\ token.intact
    /\ token' = [token EXCEPT !.text = Tamper(@, i), !.intact = FALSE]
    /\ result' = [op |-> "tamper"]
    /\ UNCHANGED <<pipelineVars, configVars, env, encryption_manager, loaded>>

DecryptText ==
  /\ token # NoToken
  /\ result' = [op |-> "decrypt_text",
                out |-> decrypt_text(encryption_manager, token.text)]
  /\ UNCHANGED <<pipelineVars, configVars, env, encryption_manager, loaded, token>>

CryptoNext ==
  \/ SetEnv
  \/ Construct
  \/ GetEncryptionManager
  \/ EncryptText
  \/ ForeignToken
  \/ TamperToken
  \/ DecryptText

CryptoSpec == CryptoInit /\ [][CryptoNext]_vars

\* ------------------------------------------------------------------------
\* The loader on its own: a directory of readable and unreadable files is
\* encrypted with a password (encrypt_directory), files of it are altered,
\* and a pipeline whose manager comes from the environment loads it.
\* ------------------------------------------------------------------------
DirFiles == 1..NumDirFiles

\* the password encrypt_directory is run with
DirectoryPasswords == {"pw1"}

\* encrypt_file of a file with this content: written is what the output file
\* holds.  The input cannot be read: the enabled branch catches the error and
\* returns False.
encrypt_file(em, content, iv) ==
  IF content = Unreadable THEN [ok |-> FALSE, written |-> << >>]
  ELSE IF ~em.encryption_enabled \/ em.cipher = << >>
  THEN [ok |-> TRUE, written |-> content]
  ELSE [ok |-> TRUE, written |-> encrypt_text(em, content, iv).value]

LoaderInit ==
  /\ vector_db = None
  /\ ensemble_retriever = NoRetriever
  /\ vsExists = TRUE
  /\ persisted = {}
  /\ srcExists = TRUE
  /\ \E S \in SUBSET DirFiles : files \in [S -> Texts \cup {Unreadable}]
  /\ last = Other("init")
  /\ inflight = NoCall
  /\ observed = NotObserved
  /\ env \in [ENCRYPTION_KEY : {None, "K1"}, ENCRYPTION_PASSWORD : {None, "pw1", "pw2"}]
  /\ encryption_manager = _initialize_encryption(env)
  /\ loaded = {}
  /\ token = NoToken
  /\ result = NoResult
  /\ settings = Defaults
  /\ _config = Defaults

\* EncryptionManager(password=...).encrypt_directory(input_dir, output_dir) of
\* the plaintext directory; the pipeline is then pointed at output_dir
EncryptDirectory ==
  \E password \in DirectoryPasswords :
    LET em   == EncryptionManager(None, password).em
        done == {f \in DOMAIN files : files[f] # Unreadable}
    IN  /\ result.op = "none"
        /\ \E iv \in [done -> IVs] :
             files' = [f \in done |-> encrypt_file(em, files[f], iv[f]).written]
        /\ result' = [op |-> "encrypt_directory", password |-> password,
                      plain |-> [f \in done |-> files[f]],
                      count |-> Cardinality(done)]
        /\ last' = Other("env")
        /\ UNCHANGED <<vector_db, ensemble_retriever, vsExists, persisted,
                       srcExists, threadVars, env, encryption_manager, loaded,
                       token, configVars>>

\* a file of the encrypted directory is altered
TamperFile ==
  \E f \in DOMAIN files :
    /\ result.op = "encrypt_directory"
    /\ files' = [files EXCEPT ![f] = Tamper(@, 3)]
    /\ result' = [op |-> "tamper"]
    /\ last' = Other("env")
    /\ UNCHANGED <<vector_db, ensemble_retriever, vsExists, persisted, srcExists,
                   threadVars, env, encryption_manager, loaded, token, configVars>>

\* self._load_documents_with_decryption(path)
LoadDocuments ==
  /\ loaded' = _load_documents_with_decryption(Here)
  /\ last' = Other("load")
  /\ UNCHANGED <<vector_db, ensemble_retriever, vsExists, persisted, srcExists,
                 files, threadVars, env, encryption_manager, token, result,
                 configVars>>

LoaderNext ==
  \/ EncryptDirectory
  \/ TamperFile
  \/ LoadDocuments

LoaderSpec == LoaderInit /\ [][LoaderNext]_vars

\* ------------------------------------------------------------------------
\* The pipeline over a source directory that also gets files no one can read.
\* ------------------------------------------------------------------------

\* a file is written that open() or f.read() raises on
CorruptFile ==
  \E f \in Files :
    /\ f \in DOMAIN files => files[f] # Unreadable
    /\ files' = [g \in DOMAIN files \cup {f} |->
                   IF g = f THEN Unreadable ELSE files[g]]
    /\ srcExists' = TRUE
    /\ last' = Other("env")
    /\ UNCHANGED <<vector_db, ensemble_retriever, vsExists, persisted>>
    /\ UNCHANGED <<threadVars, restVars>>

UnreadableNext ==
  \/ Ingest
  \/ LoadExisting
  \/ Restart
  \/ WriteFile
  \/ CorruptFile
  \/ DeleteFile
  \/ RemoveSourceDir

UnreadableSpec == Init /\ [][UnreadableNext]_vars

\* ------------------------------------------------------------------------
\* Configuration and construction: the environment gives the settings, the
\* first MedVaultRAG() of a process loads and caches the configuration, each
\* MedVaultRAG(config_override) assigns its overrides to it, and the calls of
\* the pipeline build their text splitter of it.
\* ------------------------------------------------------------------------
ChunkSizes == {50, default_chunk_size, 6000}
ChunkOverlaps == {0, default_chunk_overlap, default_chunk_size, 2000}
Weights == {-100, default_ensemble_weight_bm25, 355, default_ensemble_weight_vector, 1100}

SettingsSet ==
  [chunk_size : ChunkSizes, chunk_overlap : ChunkOverlaps,
   ensemble_weight_bm25 : Weights, ensemble_weight_vector : Weights]

\* the values a config_override gives the fields it names
OverrideValues ==
  [chunk_size |-> 50, chunk_overlap |-> 2000,
   ensemble_weight_bm25 |-> 900, ensemble_weight_vector |-> 900]

\* config_override: None, or a dict naming some fields
Overrides ==
  { [f \in S |-> OverrideValues[f]] :
      S \in { {}, {"chunk_size"}, {"chunk_overlap"},
              {"ensemble_weight_bm25", "ensemble_weight_vector"} } }

ConfigInit ==
  /\ Idle
  /\ env = NoEnv
  /\ encryption_manager = Disabled
  /\ loaded = {}
  /\ token = NoToken
  /\ result = NoResult
  /\ settings \in SettingsSet
  /\ _config = NoConfig

\* MedVaultRAG(config_override=...)
ConstructPipeline ==
  \E config_override \in Overrides :
    LET r == MedVaultRAG(_config, settings, config_override)
    IN  /\ _config' = r.cfg
        /\ result' = [op |-> "MedVaultRAG", overridden |-> DOMAIN config_override,
                      raised |-> r.raised]
        /\ UNCHANGED <<pipelineVars, env, encryption_manager, loaded, token,
                       settings>>

\* ingest (line 260) or load_existing (line 335) of a constructed pipeline
\* builds its text splitter
BuildSplitter ==
  /\ _config # NoConfig
  /\ result' = [op |-> "RecursiveCharacterTextSplitter",
                overridden |-> {}, raised |-> splitter_raises(_config)]
  /\ UNCHANGED <<pipelineVars, env, encryption_manager, loaded, token, settings,
                 _config>>

\* the process ends; the next one starts without a cached configuration
NewProcess ==
  /\ _config # NoConfig
  /\ _config' = NoConfig
  /\ result' = [op |-> "exit"]
  /\ UNCHANGED <<pipelineVars, env, encryption_manager, loaded, token, settings>>

ConfigNext ==
  \/ ConstructPipeline
  \/ BuildSplitter
  \/ NewProcess

ConfigSpec == ConfigInit /\ [][ConfigNext]_vars

\* ------------------------------------------------------------------------
\* The pipeline under the settings a deployment gives it: the defaults, or a
\* CHUNK_OVERLAP that RAGConfig accepts and the text splitter does not.
\* ------------------------------------------------------------------------
DeploySettings == {Defaults, [Defaults EXCEPT !.chunk_overlap = 2000]}

DeployInit ==
  /\ vector_db = None
  /\ ensemble_retriever = NoRetriever
  /\ vsExists \in BOOLEAN
  /\ persisted = {}
  /\ srcExists \in BOOLEAN
  /\ files = NoFiles
  /\ last = Other("init")
  /\ inflight = NoCall
  /\ observed = NotObserved
  /\ env = NoEnv
  /\ encryption_manager = _initialize_encryption(env)
  /\ loaded = {}
  /\ token = NoToken
  /\ result = NoResult
  /\ settings \in DeploySettings
  /\ _config = get_config(settings).cfg

DeploySpec == DeployInit /\ [][Next]_vars

\* ------------------------------------------------------------------------
\* Queries and health checks (rag_engine.py:456-596) on a pipeline that is
\* ingested into, loaded and restarted.  What the services outside the
\* process do in a call (the Ollama server, the retrievers' searches) is an
\* input of the call.
\* ------------------------------------------------------------------------

\* self.embedding_function of a constructed pipeline: _initialize_components
\* sets it, or the constructor raises
embedding_function == "HuggingFaceEmbeddings"

\* requests.get(base_url + "/api/tags", timeout=5): the status of the
\* response, or the exception raised
Probes == {"200", "503", "Timeout", "ConnectionError", "Exception"}

_test_ollama_connection_anyResponse(probe) == probe \in {"200", "503"}
_test_ollama_connection(probe) == probe = "200"

\* health_check: the dict it returns (it has no raising path and assigns
\* nothing)
health_check(s, probe) ==
  [ollama_connected |-> _test_ollama_connection(probe),
   vector_store_loaded |-> s.vector_db # None,
   retriever_ready |-> s.ensemble_retriever # NoRetriever,
   embedding_model_loaded |-> embedding_function # None]

Questions == { << >>, <<" ">>, <<"q">>, <<" ", "q">> }

\* question.strip()
strip(question) == RStrip(LStrip(question))

\* "not question or not question.strip()" (line 476)
Blank_never(question) == FALSE
Blank(question) == question = << >> \/ strip(question) = << >>

\* what chain.invoke meets: the answer of the model, the Ollama server not
\* answering in time or unreachable, the retriever's search failing
ChainOutcomes == {"answer", "TimeoutError", "ConnectionError", "RetrievalError"}

\* an Optional list of Documents
NoSources == [is_none |-> TRUE, docs |-> {}]
Sources(docs) == [is_none |-> FALSE, docs |-> docs]

\* the chunks the installed retriever searches
Searched(s) ==
  IF s.ensemble_retriever.mode = "hybrid"
  THEN s.ensemble_retriever.kw \cup s.persisted
  ELSE IF s.ensemble_retriever.mode = "bm25" THEN s.ensemble_retriever.kw
  ELSE s.persisted

\* query raises: retrievals and llm_calls count the searches and the LLM
\* calls made before it did
QueryRaises(type, message, retrievals, llm_calls) ==
  [raised |-> TRUE, type |-> type, message |-> message, answer |-> << >>,
   sources |-> NoSources, retrievals |-> retrievals, llm_calls |-> llm_calls]

\* query(question, return_sources).  chain: what chain.invoke meets;
\* source_fault: the second search (line 503) raises.
query(s, question, return_sources, chain, source_fault) ==
  IF s.ensemble_retriever = NoRetriever
  THEN QueryRaises("ValueError",
                   "System not initialized. Please ingest data first.", 0, 0)
  ELSE IF Blank(question)
  THEN QueryRaises("ValueError", "Question cannot be empty", 0, 0)
  ELSE IF chain = "RetrievalError" THEN QueryRaises(chain, "search failed", 1, 0)
  ELSE IF chain # "answer" THEN QueryRaises(chain, "Ollama unreachable", 1, 1)
  ELSE [raised |-> FALSE, type |-> "", message |-> "",
        answer |-> <<"answer to">> \o strip(question),
        sources |-> IF return_sources /\ ~source_fault
                    THEN Sources(Searched(s)) ELSE NoSources,
        retrievals |-> IF return_sources THEN 2 ELSE 1, llm_calls |-> 1]

\* the pair batch_query appends for one question
BatchEntry(r) ==
  IF r.raised
  THEN [answer |-> <<"Error: ", r.message>>, sources |-> NoSources]
  ELSE [answer |-> r.answer, sources |-> r.sources]

\* a batch_query that gives up at the first failing question
RECURSIVE batch_query_stopping(_, _, _)
batch_query_stopping(s, questions, chains) ==
  IF questions = << >> THEN << >>
  ELSE LET r == query(s, Head(questions), TRUE, Head(chains), FALSE)
       IN  IF r.raised THEN << >>
           ELSE <<BatchEntry(r)>>
                  \o batch_query_stopping(s, Tail(questions), Tail(chains))

\* batch_query(questions); chains[i]: what the i-th query's chain meets
RECURSIVE batch_query(_, _, _)
batch_query(s, questions, chains) ==
  IF questions = << >> THEN << >>
  ELSE <<BatchEntry(query(s, Head(questions), TRUE, Head(chains), FALSE))>>
         \o batch_query(s, Tail(questions), Tail(chains))

\* the source directory of ServeSpec: empty, or holding one file
ServeFiles == {NoFiles} \cup { [g \in {f} |-> t] : f \in Files, t \in Texts }

ServeInit ==
  /\ vector_db = None
  /\ ensemble_retriever = NoRetriever
  /\ vsExists \in BOOLEAN
  /\ persisted = {}
  /\ srcExists \in BOOLEAN
  /\ files \in IF srcExists THEN ServeFiles ELSE {NoFiles}
  /\ last = Other("init")
  /\ inflight = NoCall
  /\ observed = NotObserved
  /\ env = NoEnv
  /\ encryption_manager = _initialize_encryption(env)
  /\ loaded = {}
  /\ token = NoToken
  /\ result = NoResult
  /\ settings = Defaults
  /\ _config = Defaults

diskVars == <<vsExists, persisted, srcExists, files>>
servedVars ==
  <<threadVars, env, encryption_manager, loaded, token, settings, _config>>

\* The caller of ServeSpec makes one call at a time and takes the result of a
\* query, batch_query or health_check (TakeResult) before its next call.
Taken == result = NoResult

CallQuery ==
  \E question \in Questions, return_sources \in BOOLEAN,
     chain \in ChainOutcomes, source_fault \in BOOLEAN :
    /\ Taken
    /\ result' = [op |-> "query", question |-> question, chain |-> chain,
                  out |-> query(Here, question, return_sources, chain,
                                source_fault)]
    /\ last' = Other("query")
    /\ UNCHANGED <<vector_db, ensemble_retriever, diskVars, servedVars>>

\* the questions of a batch, and what the chain of each meets
BatchQuestions == {<<" ">>, <<"q">>}
BatchOutcomes == {"answer", "ConnectionError"}

CallBatchQuery ==
  \E n \in 0..MaxBatch :
    \E questions \in [1..n -> BatchQuestions], chains \in [1..n -> BatchOutcomes] :
      /\ Taken
      /\ result' = [op |-> "batch_query", questions |-> questions,
                    chains |-> chains,
                    out |-> batch_query(Here, questions, chains)]
      /\ last' = Other("batch_query")
      /\ UNCHANGED <<vector_db, ensemble_retriever, diskVars, servedVars>>

CallHealthCheck ==
  \E probe \in Probes :
    /\ Taken
    /\ result' = [op |-> "health_check", probe |-> probe,
                  out |-> health_check(Here, probe)]
    /\ last' = Other("health_check")
    /\ UNCHANGED <<vector_db, ensemble_retriever, diskVars, servedVars>>

TakeResult ==
  /\ ~Taken
  /\ result' = NoResult
  /\ last' = Other("returned")
  /\ UNCHANGED <<vector_db, ensemble_retriever, diskVars, servedVars>>

ServeNext ==
  \/ Taken /\ Ingest
  \/ Taken /\ LoadExisting
  \/ Taken /\ Restart
  \/ Taken /\ RemoveSourceDir
  \/ CallQuery
  \/ CallBatchQuery
  \/ CallHealthCheck
  \/ TakeResult

ServeSpec == ServeInit /\ [][ServeNext]_vars

\* ------------------------------------------------------------------------
\* Fusion.  The hybrid retriever of lines 408-415 is langchain's
\* EnsembleRetriever(retrievers=[bm25, vector], weights=[w_bm25, w_vector]):
\* it asks each retriever for its ranked list and fuses the lists by weighted
\* reciprocal rank: a document at rank r (from 1) of a list adds
\* weight / (r + c) to the score of its page_content, c = 60; the documents
\* of both lists, the first of each page_content kept, are then sorted by
\* descending score with Python's stable sort.
\* A ranked list is a sequence of [chunk, score]: the chunk and the score,
\* normalized to [0, 1] and counted in tenths, that its retriever ranked it
\* by.  Fused scores are counted in units of 1 / (1000 * RankScale).
\* ------------------------------------------------------------------------
ensemble_c == 60

ScoreOne == One \div 100

RECURSIVE RankScaleTo(_)
RankScaleTo(r) == IF r = 0 THEN 1 ELSE (ensemble_c + r) * RankScaleTo(r - 1)

\* a common multiple of the denominators r + c
RankScale == RankScaleTo(retriever_k)

\* two chunks of different files with the same content, and a third
FusionChunks ==
  { [source |-> 1, text |-> <<"a">>], [source |-> 2, text |-> <<"a">>],
    [source |-> 1, text |-> <<"b">>] }

NormalizedScores == {0, ScoreOne \div 2, ScoreOne}

\* what a retriever returns: at most retriever_k different chunks, best first
RankedLists ==
  { l \in UNION { [1..n -> [chunk : FusionChunks, score : NormalizedScores]]
                  : n \in 0..retriever_k } :
      \A i, j \in 1..Len(l) :
        i < j => (l[i].chunk # l[j].chunk /\ l[i].score >= l[j].score) }

FusionWeights ==
  { [Defaults EXCEPT !.ensemble_weight_bm25 = w,
                     !.ensemble_weight_vector = One - w] : w \in {350, 500, One} }

\* what one list adds to the score of a page_content
RECURSIVE rrf_of_list(_, _, _, _)
rrf_of_list(doc_list, weight, page_content, rank) ==
  IF rank > Len(doc_list) THEN 0
  ELSE (IF doc_list[rank].chunk.text = page_content
        THEN weight * (RankScale \div (rank + ensemble_c)) ELSE 0)
       + rrf_of_list(doc_list, weight, page_content, rank + 1)

rrf_score(doc_lists, weights, page_content) ==
  rrf_of_list(doc_lists[1], weights[1], page_content, 1)
    + rrf_of_list(doc_lists[2], weights[2], page_content, 1)

\* unique_by_key(all_docs, page_content): the first document of each content
RECURSIVE unique_by_key(_, _)
unique_by_key(docs, seen) ==
  IF docs = << >> THEN << >>
  ELSE IF Head(docs).chunk.text \in seen THEN unique_by_key(Tail(docs), seen)
  ELSE <<Head(docs)>> \o unique_by_key(Tail(docs), seen \cup {Head(docs).chunk.text})

\* sorted(..., reverse=True, key=score): stable, an entry goes behind those
\* of the same score met before it
RECURSIVE insert_sorted(_, _)
insert_sorted(e, sorted) ==
  IF sorted = << >> THEN <<e>>
  ELSE IF Head(sorted).fused >= e.fused
  THEN <<Head(sorted)>> \o insert_sorted(e, Tail(sorted))
  ELSE <<e>> \o sorted

RECURSIVE sorted_docs(_, _)
sorted_docs(entries, acc) ==
  IF entries = << >> THEN acc
  ELSE sorted_docs(Tail(entries), insert_sorted(Head(entries), acc))

\* EnsembleRetriever.weighted_reciprocal_rank: the fused list of
\* [chunk, fused]
weighted_reciprocal_rank(doc_lists, weights) ==
  LET docs == unique_by_key(doc_lists[1] \o doc_lists[2], {})
      entries == [i \in 1..Len(docs) |->
                    [chunk |-> docs[i].chunk,
                     fused |-> rrf_score(doc_lists, weights, docs[i].chunk.text)]]
  IN  sorted_docs(entries, << >>)

\* a pipeline with a hybrid retriever is asked a question: the two searches
\* have returned their lists
FusionInit ==
  /\ Idle
  /\ env = NoEnv
  /\ encryption_manager = Disabled
  /\ loaded = {}
  /\ token = NoToken
  /\ settings \in FusionWeights
  /\ _config = settings
  /\ \E keyword \in RankedLists, vector \in RankedLists :
       result = [op |-> "searched", keyword |-> keyword, vector |-> vector]

Fuse ==
  /\ result.op = "searched"
  /\ result' = [op |-> "fused", keyword |-> result.keyword,
                vector |-> result.vector,
                out |-> weighted_reciprocal_rank(
                          <<result.keyword, result.vector>>,
                          <<_config.ensemble_weight_bm25,
                            _config.ensemble_weight_vector>>)]
  /\ UNCHANGED <<pipelineVars, configVars, env, encryption_manager, loaded, token>>

FusionNext == Fuse

FusionSpec == FusionInit /\ [][FusionNext]_vars

\* ------------------------------------------------------------------------
\* Properties
\* ------------------------------------------------------------------------
Installed == ensemble_retriever # NoRetriever

\* the retriever holds a BM25 index (built from ensemble_retriever.kw)
HasKeyword(r) == r.mode \in {"hybrid", "bm25"}

\* the retriever searches the vector store
HasVector(r) == r.mode \in {"hybrid", "vector"}

Called == last.op \in {"ingest", "load_existing"}

\* the chunks load_existing would cut from the source directory as it is
LoadChunksNow == split_documents(_load_documents_with_decryption(Here), LoadSplit)

\* C1: whenever ingest returns success, the chunks of the persisted vector
\* index are the chunks the BM25 index was built from (forced re-index over a
\* store that already holds chunks included).  Stated for the calls in which
\* no library call fails.
C1_IndexesAgreeAfterIngest ==
  (last.op = "ingest" /\ last.ret /\ last.failed = "nothing"
     /\ HasKeyword(ensemble_retriever))
     => ensemble_retriever.kw = persisted

\* C2: whenever ingest or load_existing returns True a retriever is installed
\* (health()["retriever_ready"]).
C2_SuccessMeansReady == (Called /\ last.ret) => Installed

\* C3: load_existing with a persisted index falls back to vector-only
\* retrieval when the source path is missing or the BM25 build fails: a
\* retriever over the vector store is installed afterwards.
C3_VectorFallbackOnLoad ==
  /\ (last.op = "load_existing" /\ last.ret /\ ~srcExists)
        => HasVector(ensemble_retriever)
  /\ (last.op = "load_existing" /\ last.ret /\ last.failed = "bm25"
        /\ srcExists /\ LoadChunksNow # {})
        => ensemble_retriever = VectorRetriever

\* C4: after every ingest and every load_existing, failed or not, the chunk
\* set behind the installed retriever is the persisted chunk set.
C4_RetrieverMatchesPersisted ==
  (Called /\ HasKeyword(ensemble_retriever)) => ensemble_retriever.kw = persisted

\* what C5 compares: the result, the vector-store handle, the retriever and
\* the persisted collection a call leaves
Outcome(r) ==
  [ret |-> r.ret, vector_db |-> r.st.vector_db,
   ensemble_retriever |-> r.st.ensemble_retriever, persisted |-> r.st.persisted]

RetrieverState(s) ==
  [mode |-> s.ensemble_retriever.mode, kw |-> s.ensemble_retriever.kw,
   persisted |-> s.persisted]

\* C6: with the vector store present and the same documents and faults,
\* ingest(path, force=false) twice leaves the retriever state (mode, keyword
\* chunk set, persisted chunk set) that a single call leaves.
C6_IngestTwiceAsOnce ==
  vsExists =>
    \A faults \in FaultSets :
      LET once  == ingest(Here, FALSE, faults).st
          twice == ingest(once, FALSE, faults).st
      IN  RetrieverState(twice) = RetrieverState(once)

\* a non-forced ingest over an existing store has installed a hybrid retriever
C6_Witness ==
  /\ last.op = "ingest" /\ ~last.force /\ last.hadStore /\ last.ret
  /\ ensemble_retriever.mode = "hybrid" /\ persisted # {}

\* C7: load_existing chunks the documents as ingest does (same size, overlap
\* and separator cascade), so that the keyword index rebuilt on reload
\* describes the chunk set ingest persisted.
C7_LoadChunksAsIngest ==
  LoadChunksNow
    = split_documents(_load_documents_with_decryption(Here), IngestSplit)

\* C8: if the vector index cannot be built ingestion fails, and no installed
\* retriever is BM25 alone.
C8_NeverKeywordOnly ==
  /\ ensemble_retriever.mode # "bm25"
  /\ \A force \in BOOLEAN, faults \in {{"open"}, {"embed"}} :
       ~UseExisting(Here, force) => ~ingest(Here, force, faults).ret

\* C9: when only the keyword index cannot be built (BM25 raises, or there is
\* no chunk to build it from) ingest and load_existing still succeed, with
\* the vector-only retriever installed.
C9_DegradedModeIsVectorOnly ==
  /\ (Called /\ last.ret /\ last.failed = "bm25" /\ srcExists)
       => ensemble_retriever = VectorRetriever
  /\ (last.op = "load_existing" /\ last.hadStore /\ last.failed = "nothing"
        /\ srcExists /\ LoadChunksNow = {})
       => (last.ret /\ ensemble_retriever = VectorRetriever)

\* C10: load_existing without a persisted vector index reports failure and
\* neither loads a vector store nor installs a retriever.
C10_LoadWithoutStoreFails ==
  [][ (last'.op = "load_existing" /\ ~vsExists)
        => /\ ~last'.ret
           /\ vector_db' = vector_db
           /\ ensemble_retriever' = ensemble_retriever
           /\ vsExists' = vsExists
           /\ persisted' = persisted ]_vars

\* load_existing was called with no store directory, over a source directory
\* that holds documents
C10_Witness ==
  /\ last.op = "load_existing" /\ ~last.hadStore /\ ~last.ret
  /\ srcExists /\ files # NoFiles

\* C11: ingest on a missing source directory creates the directory, empty,
\* and returns False; ingest on an existing source directory without documents,
\* when the store directory is missing or force_reindex is set, returns False
\* too; both leave the vector store directory, the persisted index and the
\* store handle as they were.  (ingest returns a value in every case: its body
\* is one try block whose handler returns False.)
C11_NoSourceNoIndex ==
  [][ (last'.op = "ingest" /\ (~srcExists \/ (files = NoFiles
                                              /\ (~vsExists \/ last'.force))))
        => /\ ~last'.ret
           /\ srcExists' /\ files' = NoFiles
           /\ vsExists' = vsExists
           /\ persisted' = persisted
           /\ vector_db' = vector_db ]_vars

\* a forced ingest over an existing store found the source directory empty
C11_Witness ==
  /\ last.op = "ingest" /\ last.force /\ last.hadStore /\ ~last.ret
  /\ srcExists /\ files = NoFiles /\ persisted # {}

\* C12: no query and no health check reads the pipeline while an ingest or
\* load_existing call on it has replaced the vector-store handle and not yet
\* installed the retriever for it.
C12_ReadersExcludedWhileIndexing ==
  observed.by # "none" => ~observed.midway

\* C16: round trip.  decrypt_text returns the plaintext of every token that
\* encrypt_text made under the key of the decrypting manager, whether that key
\* was given or derived from a password; and a manager made of a password
\* decrypts what any other manager made of the same password (by argument or
\* from the environment) encrypted.
C16_RoundTrip ==
  /\ (result.op = "decrypt_text" /\ token.origin = "encrypt_text" /\ token.intact
        /\ encryption_manager.encryption_enabled
        /\ encryption_manager.cipher = token.cipher)
       => result.out = Return(token.plain)
  /\ \A password \in {"pw1", "pw2"}, plaintext \in Plaintexts, iv \in IVs :
       LET one   == EncryptionManager(None, password).em
           other == get_encryption_manager(None, None,
                      [ENCRYPTION_KEY |-> None, ENCRYPTION_PASSWORD |-> password]).em
       IN  /\ one.encryption_enabled /\ other.cipher = one.cipher
           /\ decrypt_text(other, encrypt_text(one, plaintext, iv).value)
                = Return(plaintext)

\* a manager made of a password decrypted a non-ASCII text it was given back
C16_Witness ==
  /\ result.op = "decrypt_text" /\ result.out.ok
  /\ token.origin = "encrypt_text" /\ token.intact
  /\ token.plain = <<"a", EAcute>>
  /\ encryption_manager.cipher = PBKDF2HMAC("pw1", Salt)

\* C17: tamper detection.  decrypt_text of a token that was altered, or that
\* was made under another key, raises the integrity error, which is neither
\* the error of a disabled manager nor that of an undecodable plaintext; and
\* decrypt_text never returns a text other than the one that was encrypted.
C17_TamperDetected ==
  /\ (result.op = "decrypt_text" /\ token.origin = "encrypt_text"
        /\ encryption_manager.encryption_enabled
        /\ (~token.intact \/ encryption_manager.cipher # token.cipher))
       => result.out = IntegrityError
  /\ (result.op = "decrypt_text" /\ token.origin = "encrypt_text" /\ result.out.ok)
       => result.out.value = token.plain
  /\ IntegrityError.error \notin {NotEnabled.error, UnicodeDecodeError.error}

\* the manager that made a token was given it back altered
C17_Witness ==
  /\ result.op = "decrypt_text" /\ result.out = IntegrityError
  /\ token.origin = "encrypt_text" /\ ~token.intact
  /\ encryption_manager.cipher = token.cipher

\* the key that the arguments and the environment select, in the stated
\* order: key argument, password argument, key variable, password variable
Selected(encryption_key, password, e) ==
  IF Truthy(encryption_key) THEN [by |-> "key", secret |-> encryption_key]
  ELSE IF Truthy(password) THEN [by |-> "password", secret |-> password]
  ELSE IF Truthy(e.ENCRYPTION_KEY) THEN [by |-> "key", secret |-> e.ENCRYPTION_KEY]
  ELSE IF Truthy(e.ENCRYPTION_PASSWORD)
  THEN [by |-> "password", secret |-> e.ENCRYPTION_PASSWORD]
  ELSE [by |-> "nothing", secret |-> None]

\* the manager of a selection
ManagerOf(sel) ==
  IF sel.by = "key" THEN Enabled(<<sel.secret>>)
  ELSE IF sel.by = "password" THEN Enabled(PBKDF2HMAC(sel.secret, Salt))
  ELSE Disabled

Readable == {f \in DOMAIN files : files[f] # Unreadable}

\* what the loader makes of the file f alone
LoadedAlone(f) ==
  _load_documents_with_decryption([Here EXCEPT !.files = [g \in {f} |-> files[f]]])

\* C13: with encryption enabled, a file whose content does not decrypt under
\* the pipeline's key (another key, an altered token, plain text) is loaded as
\* a document holding the content as read, and every file is loaded as it
\* would be loaded alone.
C13_UndecryptableLoadedRaw ==
  last.op = "load" =>
    /\ \A f \in Readable :
         (encryption_manager.encryption_enabled
            /\ ~decrypt_text(encryption_manager, files[f]).ok)
           => [source |-> f, text |-> files[f]] \in loaded
    /\ loaded = UNION { LoadedAlone(f) : f \in DOMAIN files }

\* of two encrypted files one was altered: it is loaded as read, the other
\* one decrypted
C13_Witness ==
  /\ last.op = "load" /\ result.op = "tamper"
  /\ encryption_manager = Enabled(PBKDF2HMAC("pw1", Salt))
  /\ \E f, g \in DOMAIN files :
       /\ [source |-> f, text |-> files[f]] \in loaded
       /\ [source |-> g, text |-> files[g]] \notin loaded
       /\ [source |-> g, text |-> <<"a", "b", " ", "c">>] \in loaded

\* C14: the loader returns exactly one document for each file it can read,
\* whatever it cannot read beside them, and an ingest of a directory that has
\* files, in which nothing else fails, returns False exactly if no document
\* was loaded.
C14_FailsIffNothingLoaded ==
  /\ Cardinality(_load_documents_with_decryption(Here)) = Cardinality(Readable)
  /\ (last.op = "ingest" /\ last.failed = "nothing" /\ files # NoFiles)
       => (~last.ret <=> _load_documents_with_decryption(Here) = {})

\* C15: the directory that encrypt_directory made of N files with a password
\* is loaded by a pipeline configured with that password as N documents
\* holding the plaintexts, and by a pipeline configured with another password
\* as N documents holding the files' contents as they are.
C15_EncryptedDirectoryLoads ==
  (last.op = "load" /\ result.op = "encrypt_directory"
     /\ env.ENCRYPTION_KEY = None /\ Truthy(env.ENCRYPTION_PASSWORD)) =>
    /\ DOMAIN files = DOMAIN result.plain
    /\ result.count = Cardinality(DOMAIN files)
    /\ Cardinality(loaded) = result.count
    /\ loaded = IF env.ENCRYPTION_PASSWORD = result.password
                THEN { [source |-> f, text |-> result.plain[f]] : f \in DOMAIN files }
                ELSE { [source |-> f, text |-> files[f]] : f \in DOMAIN files }

\* two files were encrypted and loaded with the password they were encrypted with
C15_Witness ==
  /\ last.op = "load" /\ result.op = "encrypt_directory"
  /\ env = [ENCRYPTION_KEY |-> None, ENCRYPTION_PASSWORD |-> "pw1"]
  /\ result.count = NumDirFiles
  /\ loaded = { [source |-> f, text |-> result.plain[f]] : f \in DirFiles }

\* C19: every pipeline that was constructed, with or without config_override,
\* holds weights that lie in [0, 1] and sum to 1.0 within 0.01.
C19_ConstructedWeightsValid ==
  (result.op = "MedVaultRAG" /\ ~result.raised) =>
    /\ 0 <= _config.ensemble_weight_bm25 /\ _config.ensemble_weight_bm25 <= One
    /\ 0 <= _config.ensemble_weight_vector /\ _config.ensemble_weight_vector <= One
    /\ Abs(_config.ensemble_weight_bm25 + _config.ensemble_weight_vector - One)
         <= Tolerance

\* C20: every pipeline that was constructed holds a chunk size in [100, 5000]
\* and a chunk overlap smaller than it, so that no ingest or load_existing
\* call of it is the first to reject the configuration.
C20_ConstructedChunkingValid ==
  /\ (result.op = "MedVaultRAG" /\ ~result.raised) =>
       /\ MinChunkSize <= _config.chunk_size /\ _config.chunk_size <= MaxChunkSize
       /\ _config.chunk_overlap < _config.chunk_size
  /\ result.op = "RecursiveCharacterTextSplitter" => ~result.raised

\* C28: a call of ingest or load_existing that returns False leaves
\* self.vector_db and self.ensemble_retriever as they were before the call.
C28_FailedCallChangesNothing ==
  [][(last'.op \in {"ingest", "load_existing"} /\ ~last'.ret)
       => UNCHANGED <<vector_db, ensemble_retriever>>]_vars

\* C29: load_existing leaves the persisted chunk set as it found it, whatever
\* the source directory holds.
C29_LoadLeavesPersisted ==
  [][last'.op = "load_existing" => persisted' = persisted]_vars

\* C30: a pipeline constructed without config_override uses the configuration
\* the settings give, whatever overrides earlier constructions were given.
C30_OverridesAreLocal ==
  (result.op = "MedVaultRAG" /\ ~result.raised /\ result.overridden = {})
    => _config = settings

\* the pipeline attributes and the disk
pipelineState == <<vector_db, ensemble_retriever, vsExists, persisted, srcExists, files>>

\* C21: health_check returns, in every pipeline state, a mapping whose
\* vector_store_loaded, retriever_ready and embedding_model_loaded tell whether
\* the vector store, the retriever and the embedding provider are there, and
\* whose ollama_connected is false when the probe fails, times out or gets a
\* status other than 200; it changes nothing of the pipeline.
C21_HealthCheckReportsAndReads ==
  [][last'.op = "health_check" =>
       /\ result'.out.vector_store_loaded = (vector_db # None)
       /\ result'.out.retriever_ready = Installed
       /\ result'.out.embedding_model_loaded
       /\ result'.probe # "200" => ~result'.out.ollama_connected
       /\ DOMAIN result'.out = {"ollama_connected", "vector_store_loaded",
                                "retriever_ready", "embedding_model_loaded"}
       /\ UNCHANGED pipelineState]_vars

C21_Witness ==
  /\ last.op = "health_check"
  /\ result.probe = "503"
  /\ Installed
  /\ ~result.out.ollama_connected

\* C22: a query on a pipeline with an installed retriever and a loaded store
\* never raises the time-out or connection error of the LLM service.
C22_UnreachableServiceNotRaised ==
  (last.op = "query" /\ Installed /\ vector_db # None)
    => ~(result.out.raised
           /\ result.out.type \in {"TimeoutError", "ConnectionError"})

\* a question that is empty or holds white space only
AllSpace(question) == \A i \in 1..Len(question) : question[i] \in {" ", "\n"}

\* C24: query on a pipeline without a retriever raises ValueError "System not
\* initialized", and query with an empty or whitespace-only question raises
\* ValueError, both before any search or LLM call and without changing the
\* pipeline.
C24_QueryRejectsInvalidUse ==
  [][(last'.op = "query" /\ (~Installed \/ AllSpace(result'.question))) =>
       /\ result'.out.raised
       /\ result'.out.type = "ValueError"
       /\ ~Installed =>
            result'.out.message = "System not initialized. Please ingest data first."
       /\ result'.out.retrievals = 0
       /\ result'.out.llm_calls = 0
       /\ UNCHANGED pipelineState]_vars

C24_Witness ==
  /\ last.op = "query"
  /\ Installed
  /\ result.question = <<" ">>
  /\ result.chain = "answer"
  /\ result.out.raised

\* C25: batch_query returns one result per question, in the order of the
\* questions: the answer and sources of the question's query, or
\* ("Error: <message>", None) when that query raises; the questions after a
\* failing one are still processed.
C25_BatchOneResultPerQuestion ==
  last.op = "batch_query" =>
    /\ Len(result.out) = Len(result.questions)
    /\ \A i \in 1..Len(result.questions) :
         LET r == query(Here, result.questions[i], TRUE, result.chains[i], FALSE)
         IN  IF r.raised
             THEN /\ result.out[i].answer = <<"Error: ", r.message>>
                  /\ result.out[i].sources.is_none
             ELSE /\ result.out[i].answer = r.answer
                  /\ result.out[i].sources = r.sources

C25_Witness ==
  /\ last.op = "batch_query"
  /\ Len(result.questions) = MaxBatch
  /\ result.out[1].answer = <<"Error: ", "Question cannot be empty">>
  /\ result.out[MaxBatch].answer = <<"answer to", "q">>

\* C26: whatever was called before, health_check reports retriever_ready only
\* together with vector_store_loaded.
C26_RetrieverImpliesStore ==
  \A probe \in Probes :
    health_check(Here, probe).retriever_ready
      => health_check(Here, probe).vector_store_loaded

C26_Witness ==
  /\ ensemble_retriever.mode = "bm25"
  /\ vector_db # None
  /\ persisted = {}

\* C27: on one pipeline instance (no restart) an installed retriever stays
\* installed and a loaded vector store stays loaded through every call, failed
\* ones included, and after a failed ingest or load_existing a pipeline that
\* had a retriever still answers a query.
C27_ReadinessIsMonotone ==
  [][last'.op # "restart" =>
       /\ Installed => Installed'
       /\ vector_db # None => vector_db' # None
       /\ (Installed /\ last'.op \in {"ingest", "load_existing"} /\ ~last'.ret)
            => ~query([Here EXCEPT !.ensemble_retriever = ensemble_retriever',
                                   !.vector_db = vector_db',
                                   !.persisted = persisted'],
                      <<"q">>, TRUE, "answer", FALSE).raised]_vars

C27_Witness ==
  /\ Called
  /\ ~last.ret
  /\ Installed

\* the score a ranked list gives a chunk (0 if it does not hold it)
ScoreIn(l, chunk) ==
  IF \E i \in 1..Len(l) : l[i].chunk = chunk
  THEN (CHOOSE e \in {l[i] : i \in 1..Len(l)} : e.chunk = chunk).score
  ELSE 0

\* the chunks of the two lists
Retrieved ==
  {result.keyword[i].chunk : i \in 1..Len(result.keyword)}
    \cup {result.vector[i].chunk : i \in 1..Len(result.vector)}

\* C23: the fused score of every chunk is w_keyword times its normalized
\* keyword score plus w_vector times its normalized vector score, a score
\* being 0 where the chunk is absent (so a chunk of one list only gets
\* w_side times its score there); every chunk of either list is in the fused
\* list exactly once; the fused list is in descending order of fused score.
C23_WeightedScoreFusion ==
  result.op = "fused" =>
    /\ \A i \in 1..Len(result.out) :
         result.out[i].fused * ScoreOne
           = RankScale
               * (_config.ensemble_weight_bm25
                    * ScoreIn(result.keyword, result.out[i].chunk)
                  + _config.ensemble_weight_vector
                    * ScoreIn(result.vector, result.out[i].chunk))
    /\ \A chunk \in Retrieved :
         Cardinality({i \in 1..Len(result.out) : result.out[i].chunk = chunk}) = 1
    /\ \A i, j \in 1..Len(result.out) :
         i < j => result.out[i].fused >= result.out[j].fused
====
